---- MODULE Spec2Model ----
(***************************************************************************)
(* Model of the forecasting pipeline of src/server.js: the singleton       *)
(* EnergyForecastModel (trainModel, prepareTrainingData, predict) and the  *)
(* GET /api/model-performance handler.                                     *)
(*                                                                         *)
(* Node runs every handler on one event loop, so a handler executes        *)
(* atomically from one `await` to the next.  Each action below is one such *)
(* run-to-await segment of one invocation.                                 *)
(***************************************************************************)
EXTENDS Integers, Sequences, FiniteSets

(* ---------------------------- bounds ----------------------------------- *)
MaxTrainCalls == 2      \* invocations of trainModel()
MaxPredictCalls == 1    \* invocations of predict()
MaxPerfCalls == 1       \* requests to /api/model-performance
MaxHead == 1            \* freely chosen records in front of the uniform tail
MaxInstant == 4         \* predict() ranges end at 0..MaxInstant, in ticks

TrainCalls == 1..MaxTrainCalls
PredictCalls == 1..MaxPredictCalls
PerfCalls == 1..MaxPerfCalls

(* ------------------------- program constants --------------------------- *)
\* `this.model = null`: the value of the owned model before any assignment.
NoModel == 0
\* a Number field of the Demand schema that the document does not carry
\* (undefined / null in JavaScript).
Absent == -1000
\* `if (features.length < 50)`
MinTrainingData == 50
\* `m.add(1, 'hour')`, in ticks: one tick is half an hour, so that ranges
\* whose bounds are not a whole number of hours apart are covered.
Hour == 2

\* The instants a predict() range starts at (every offset within the first
\* hour) and ends at.
StartInstants == 0..(Hour - 1)
Instants == 0..MaxInstant

(* -------------------------- exogenous values --------------------------- *)
\* What one loop iteration of predict() draws with Math.random (lines 88, 89,
\* 92), in hundredths: temp in [30, 35), humidity in [40, 50), lastDemand in
\* [100, 150).  Two draws stand for the range.
ExoValues ==
    { [ temp |-> 3014, humidity |-> 4050, lastDemand |-> 10000 ],
      [ temp |-> 3496, humidity |-> 4949, lastDemand |-> 14999 ] }

\* A source that returns the same values whenever it is asked.
SteadyExo == { [ temp |-> 3014, humidity |-> 4050, lastDemand |-> 10000 ] }

(* --------------------------- demand records ---------------------------- *)
\* Values of actualDemand / accuracy a stored record may carry.
ActualDemandValues == {Absent, 120}
AccuracyValues == {Absent, -20, 0, 90}

\* A document of the Demand collection.  The feature columns other than the
\* demand are irrelevant to control flow and are held fixed.
DemandRecord(actual, acc) ==
    [ actualDemand |-> actual, forecastedDemand |-> 118, temperature |-> 30,
      humidity |-> 45, dayOfWeek |-> 1, hour |-> 12, accuracy |-> acc ]

RecordKinds == { DemandRecord(a, c) : a \in ActualDemandValues, c \in AccuracyValues }

\* The uniform tail of a store: n fully observed records, as the seeder
\* writes them (actualDemand, forecastedDemand and accuracy all present).
Pad(n) == [ i \in 1..n |-> DemandRecord(120, 90) ]

PadCounts == {0, 1, MinTrainingData - 1, MinTrainingData}

RECURSIVE SeqsUpTo(_, _)
SeqsUpTo(S, n) ==
    IF n = 0 THEN { <<>> }
    ELSE LET shorter == SeqsUpTo(S, n - 1)
         IN  shorter \cup { Append(s, x) : s \in { q \in shorter : Len(q) = n - 1 }, x \in S }

\* The contents of the Demand collection the report and the size check are
\* run against: every head of up to MaxHead records of any kind, then a tail.
Stores == { h \o Pad(n) : h \in SeqsUpTo(RecordKinds, MaxHead), n \in PadCounts }

\* The stores the train/predict interleavings are run against, one for each
\* way the size check and the data can fall: too few records; enough records
\* but one of them without actualDemand; enough records, all observed.
ServeStores ==
    { Pad(MinTrainingData - 1),
      <<DemandRecord(Absent, Absent)>> \o Pad(MinTrainingData - 1),
      Pad(MinTrainingData) }

(* ------------------------------ state ---------------------------------- *)
VARIABLES
    store,         \* Demand.find().sort({date: -1}): the stored records
    model,         \* forecastModel.model: NoModel or the id of a model object
    fitDone,       \* the model objects whose fit() has resolved
    isTraining,    \* forecastModel.isTraining
    trainCalls,    \* per trainModel() invocation: position and outcome
    predictCalls,  \* per predict() invocation: position, locals and outcome
    perfCalls      \* per /api/model-performance request: position, response

vars == <<store, model, fitDone, isTraining, trainCalls, predictCalls, perfCalls>>

NoPoint ==
    [ timestamp |-> -1, hour |-> -1, dayOfWeek |-> -1, temperature |-> -1, humidity |-> -1,
      input |-> <<>>, model |-> NoModel, fitted |-> FALSE ]

\* No earlier response of predict() is held by the caller.
NoResponse == [ start |-> -1, end |-> -1, predictions |-> <<>> ]

InitState ==
    /\ model = NoModel
    /\ isTraining = FALSE
    /\ fitDone = {}
    /\ trainCalls = [ t \in TrainCalls |-> [ pc |-> "init", result |-> "none", dataPoints |-> 0 ] ]
    /\ predictCalls = [ p \in PredictCalls |->
            [ pc |-> "init", result |-> "none", stationId |-> "", start |-> 0, end |-> 0, m |-> 0,
              pending |-> NoPoint, predictions |-> <<>>, previous |-> NoResponse ] ]
    /\ perfCalls = [ q \in PerfCalls |->
            [ pc |-> "init", averageAccuracy |-> 0, totalPredictions |-> 0, modelStatus |-> "none" ] ]

Init == store \in ServeStores /\ InitState

InitReport == store \in Stores /\ InitState

\* Invocations are numbered in order of arrival: invocation c is issued only
\* after invocation c - 1 has been issued (it may still be running).
Arrived(calls, c) == IF c = 1 THEN TRUE ELSE calls[c - 1].pc # "init"

(* ----------------------- prepareTrainingData --------------------------- *)
\* `r.actualDemand ?? r.forecastedDemand`
Coalesce(a, b) == IF a = Absent THEN b ELSE a

\* historical.map(...) twice: one feature row and one target per record.
PrepareTrainingData(historical) ==
    [ features |-> [ i \in 1..Len(historical) |->
                       << historical[i].temperature, historical[i].humidity,
                          historical[i].dayOfWeek, historical[i].hour,
                          Coalesce(historical[i].actualDemand, historical[i].forecastedDemand) >> ],
      targets  |-> [ i \in 1..Len(historical) |-> << historical[i].actualDemand >> ] ]

\* The size check with the boundary on the wrong side (`<=` for `<`).
NotEnoughDataInclusive(features) == Len(features) <= MinTrainingData

\* `features.length < 50`
NotEnoughData(features) == Len(features) < MinTrainingData

(* ----------------------------- trainModel ------------------------------ *)
\* The guard without line 55: the flag is tested but not set before the await.
TrainCallFlagNotSet(t) ==
    /\ trainCalls[t].pc = "init"
    /\ Arrived(trainCalls, t)
    /\ IF isTraining
       THEN trainCalls' = [trainCalls EXCEPT ![t].pc = "done", ![t].result = "already_training"]
       ELSE trainCalls' = [trainCalls EXCEPT ![t].pc = "find"]
    /\ UNCHANGED <<store, model, fitDone, isTraining, predictCalls, perfCalls>>

\* The guard with the flag cleared on the early return as on the other exits.
TrainCallRejectClearsFlag(t) ==
    /\ trainCalls[t].pc = "init"
    /\ Arrived(trainCalls, t)
    /\ IF isTraining
       THEN /\ trainCalls' = [trainCalls EXCEPT ![t].pc = "done", ![t].result = "already_training"]
            /\ isTraining' = FALSE
       ELSE /\ isTraining' = TRUE
            /\ trainCalls' = [trainCalls EXCEPT ![t].pc = "find"]
    /\ UNCHANGED <<store, model, fitDone, predictCalls, perfCalls>>

\* Lines 54-58: the guard, the flag, and the start of the store read.
TrainCall(t) ==
    /\ trainCalls[t].pc = "init"
    /\ Arrived(trainCalls, t)
    /\ IF isTraining
       THEN /\ trainCalls' = [trainCalls EXCEPT ![t].pc = "done", ![t].result = "already_training"]
            /\ UNCHANGED isTraining
       ELSE /\ isTraining' = TRUE
            /\ trainCalls' = [trainCalls EXCEPT ![t].pc = "find"]
    /\ UNCHANGED <<store, model, fitDone, predictCalls, perfCalls>>

\* Lines 58-68 (and 73-76 when the size check throws): the read resolves,
\* the size check, the new model object is assigned to this.model, fit starts.
\* The model object created by invocation t is identified by t.
TrainPrepared(t) ==
    /\ trainCalls[t].pc = "find"
    /\ LET data == PrepareTrainingData(store)
       IN  IF NotEnoughData(data.features)
           THEN /\ isTraining' = FALSE
                /\ trainCalls' = [trainCalls EXCEPT ![t].pc = "done", ![t].result = "not_enough_data"]
                /\ UNCHANGED model
           ELSE /\ model' = t
                /\ trainCalls' = [trainCalls EXCEPT ![t].pc = "fit",
                                                    ![t].dataPoints = Len(data.features)]
                /\ UNCHANGED isTraining
    /\ UNCHANGED <<store, fitDone, predictCalls, perfCalls>>

\* Lines 68-72: fit() resolves.
TrainFitDone(t) ==
    /\ trainCalls[t].pc = "fit"
    /\ fitDone' = fitDone \cup {t}
    /\ isTraining' = FALSE
    /\ trainCalls' = [trainCalls EXCEPT ![t].pc = "done", ![t].result = "success"]
    /\ UNCHANGED <<store, model, predictCalls, perfCalls>>

\* The catch block without line 75: the error is rethrown with the flag set.
TrainFitFailedFlagKept(t) ==
    /\ trainCalls[t].pc = "fit"
    /\ trainCalls' = [trainCalls EXCEPT ![t].pc = "done", ![t].result = "fit_error"]
    /\ UNCHANGED <<store, model, fitDone, isTraining, predictCalls, perfCalls>>

\* The catch block discarding the model whose fit was rejected.
TrainFitFailedDropsModel(t) ==
    /\ trainCalls[t].pc = "fit"
    /\ isTraining' = FALSE
    /\ model' = NoModel
    /\ trainCalls' = [trainCalls EXCEPT ![t].pc = "done", ![t].result = "fit_error"]
    /\ UNCHANGED <<store, fitDone, predictCalls, perfCalls>>

\* Lines 68, 73-76: fit() rejects.
TrainFitFailed(t) ==
    /\ trainCalls[t].pc = "fit"
    /\ isTraining' = FALSE
    /\ trainCalls' = [trainCalls EXCEPT ![t].pc = "done", ![t].result = "fit_error"]
    /\ UNCHANGED <<store, model, fitDone, predictCalls, perfCalls>>

(* ------------------------------- predict -------------------------------- *)
\* Math.round(x) = floor(x + 1/2), for the rational x = num / den, den > 0.
RoundDiv(num, den) == (2 * num + den) \div (2 * den)

\* m.hour() and m.day() of an instant given in ticks.
HourOf(m) == (m \div Hour) % 24
DayOfWeekOf(m) == (m \div (24 * Hour)) % 7

\* A request field that is not there (undefined, or the empty string).
MissingDate == -2000

\* `moment(d)` for a string d that is not a date: an invalid moment.
InvalidDate == -3000

\* The loop test including the end instant (isSameOrBefore for isBefore).
IsSameOrBefore(m, end) == m # InvalidDate /\ end # InvalidDate /\ m <= end

\* `m.isBefore(end)`: false when either moment is invalid.
IsBefore(m, end) == m # InvalidDate /\ end # InvalidDate /\ m < end

\* Lines 88-107: the point computed for instant m by the model object that
\* this.model refers to at that moment.  The forecast value is represented by
\* the parameters it was computed from: which model object, and whether that
\* object's fit had completed, and the input row it was given (line 94).
\* x is what Math.random returned; temperature is rounded to tenths and
\* humidity to units (lines 103-104).
ForecastPoint(m, mdl, fitted, x) ==
    [ timestamp |-> m, hour |-> HourOf(m), dayOfWeek |-> DayOfWeekOf(m),
      temperature |-> RoundDiv(x.temp, 10), humidity |-> RoundDiv(x.humidity, 100),
      input |-> << x.temp, x.humidity, DayOfWeekOf(m), HourOf(m), x.lastDemand >>,
      model |-> mdl, fitted |-> (mdl \in fitted) ]

\* Line 87 loop test followed by lines 88-97 (up to `await prediction.data()`)
\* or by line 110.
LoopFrom(c, m, x) ==
    IF IsBefore(m, c.end)
    THEN [c EXCEPT !.m = m, !.pc = "await", !.pending = ForecastPoint(m, model, fitDone, x)]
    ELSE [c EXCEPT !.m = m, !.pc = "done", !.result = "ok", !.pending = NoPoint]

\* The body of predict() with `predictions` living across invocations
\* instead of being created by each (line 85 outside the method).
PredictEnterKeepsPredictions(c, startDate, endDate, x) ==
    LET args == [c EXCEPT !.start = startDate, !.end = endDate]
    IN  IF model = NoModel
        THEN [args EXCEPT !.pc = "done", !.result = "model_not_trained"]
        ELSE LoopFrom(args, startDate, x)

\* Lines 81-97: the null check, the range, the empty `predictions`, the first
\* iteration up to its await.
PredictEnter(c, startDate, endDate, x) ==
    LET args == [c EXCEPT !.start = startDate, !.end = endDate]
    IN  IF model = NoModel
        THEN [args EXCEPT !.pc = "done", !.result = "model_not_trained"]
        ELSE LoopFrom([args EXCEPT !.predictions = <<>>], startDate, x)

\* predict(stationId, startDate, endDate) is invoked; stationId is not used.
PredictCall(p, startDate, endDate, x) ==
    /\ predictCalls[p].pc = "init"
    /\ Arrived(predictCalls, p)
    /\ predictCalls' = [predictCalls EXCEPT ![p] = PredictEnter(predictCalls[p], startDate, endDate, x)]
    /\ UNCHANGED <<store, model, fitDone, isTraining, trainCalls, perfCalls>>

\* The resumption with the training flag cleared, as the exits of trainModel() do.
PredictResumeClearsFlag(p, x) ==
    /\ predictCalls[p].pc = "await"
    /\ LET c == predictCalls[p]
           pushed == [c EXCEPT !.predictions = Append(c.predictions, c.pending)]
       IN  predictCalls' = [predictCalls EXCEPT ![p] = LoopFrom(pushed, c.m + Hour, x)]
    /\ isTraining' = FALSE
    /\ UNCHANGED <<store, model, fitDone, trainCalls, perfCalls>>

\* Lines 97-108, then the next loop test: the awaited value arrives, the point
\* is pushed, m advances by one hour.
PredictResume(p, x) ==
    /\ predictCalls[p].pc = "await"
    /\ LET c == predictCalls[p]
           pushed == [c EXCEPT !.predictions = Append(c.predictions, c.pending)]
       IN  predictCalls' = [predictCalls EXCEPT ![p] = LoopFrom(pushed, c.m + Hour, x)]
    /\ UNCHANGED <<store, model, fitDone, isTraining, trainCalls, perfCalls>>

\* The caller, holding the sequence an invocation returned, invokes predict()
\* again: a new invocation starts, `previous` is the response it holds.
PredictAgain(p) ==
    /\ predictCalls[p].pc = "done"
    /\ predictCalls[p].result = "ok"
    /\ predictCalls' = [predictCalls EXCEPT
            ![p].pc = "init", ![p].result = "none",
            ![p].previous = [ start |-> predictCalls[p].start, end |-> predictCalls[p].end,
                              predictions |-> predictCalls[p].predictions ]]
    /\ UNCHANGED <<store, model, fitDone, isTraining, trainCalls, perfCalls>>

(* ----------------------------- /api/predict ----------------------------- *)
\* The documents of the Station collection, by id.
Stations == {"s1"}

\* The stationId values of the requests: none, a stored station, an id that
\* no stored station has.
StationIds == {"", "s1", "s2"}

\* The startDate and endDate values of the requests: none, a string that is
\* not a date, a date.
RouteStarts == {MissingDate, InvalidDate, 0}
RouteEnds == {MissingDate, InvalidDate, Hour + 1}

\* Lines 133-138: the body is read; a falsy field is answered 400, otherwise
\* the station lookup starts.
RouteCall(p, stationId, startDate, endDate) ==
    /\ predictCalls[p].pc = "init"
    /\ Arrived(predictCalls, p)
    /\ LET req == [predictCalls[p] EXCEPT !.stationId = stationId, !.start = startDate, !.end = endDate]
       IN  predictCalls' = [predictCalls EXCEPT ![p] =
                IF stationId = "" \/ startDate = MissingDate \/ endDate = MissingDate
                THEN [req EXCEPT !.pc = "done", !.result = "bad_request"]
                ELSE [req EXCEPT !.pc = "station"]]
    /\ UNCHANGED <<store, model, fitDone, isTraining, trainCalls, perfCalls>>

\* Lines 138-141: the lookup resolves; no station is answered 404, otherwise
\* predict() is invoked with the fields of the body.  The error predict()
\* throws is answered 500 with its message (lines 144-147).
RouteStation(p, x) ==
    /\ predictCalls[p].pc = "station"
    /\ LET c == predictCalls[p]
       IN  predictCalls' = [predictCalls EXCEPT ![p] =
                IF c.stationId \notin Stations
                THEN [c EXCEPT !.pc = "done", !.result = "station_not_found"]
                ELSE PredictEnter(c, c.start, c.end, x)]
    /\ UNCHANGED <<store, model, fitDone, isTraining, trainCalls, perfCalls>>

(* ------------------------ /api/model-performance ------------------------ *)
\* `recent.filter(p => p.accuracy)`: JavaScript truthiness of a Number field.
Truthy(x) == x # Absent /\ x # 0

\* Array.prototype.filter
RECURSIVE SelectAccuracies(_)
SelectAccuracies(recent) ==
    IF recent = <<>> THEN <<>>
    ELSE LET rest == SelectAccuracies(Tail(recent))
         IN  IF Truthy(Head(recent).accuracy) THEN <<Head(recent).accuracy>> \o rest ELSE rest

\* `accuracies.reduce((a, b) => a + b, 0)`
RECURSIVE SumSeq(_)
SumSeq(s) == IF s = <<>> THEN 0 ELSE Head(s) + SumSeq(Tail(s))

\* Lines 154-157.  averageAccuracy is kept in hundredths:
\* Math.round(avg * 100) / 100 is represented by the integer Math.round(avg * 100).
AverageAccuracy(recent) ==
    LET accuracies == SelectAccuracies(recent)
        divisor == IF Len(accuracies) = 0 THEN 1 ELSE Len(accuracies)
    IN  RoundDiv(100 * SumSeq(accuracies), divisor)

\* The total taken over the filtered values instead of over all records.
TotalOfAccuracies(recent) == Len(SelectAccuracies(recent))

\* Line 158: `recent.length`
TotalPredictions(recent) == Len(recent)

\* Line 159
ModelStatus(mdl) == IF mdl # NoModel THEN "trained" ELSE "not_trained"

\* Line 153: the store read starts.
PerfCall(q) ==
    /\ perfCalls[q].pc = "init"
    /\ Arrived(perfCalls, q)
    /\ perfCalls' = [perfCalls EXCEPT ![q].pc = "find"]
    /\ UNCHANGED <<store, model, fitDone, isTraining, trainCalls, predictCalls>>

\* Lines 153-160: the read resolves and the response is built.
PerfRespond(q) ==
    /\ perfCalls[q].pc = "find"
    /\ perfCalls' = [perfCalls EXCEPT ![q] =
            [ pc |-> "done", averageAccuracy |-> AverageAccuracy(store),
              totalPredictions |-> TotalPredictions(store), modelStatus |-> ModelStatus(model) ]]
    /\ UNCHANGED <<store, model, fitDone, isTraining, trainCalls, predictCalls>>

\* The client, holding a report, requests /api/model-performance again; the
\* fields keep the report it holds until the next one is built.
PerfAgain(q) ==
    /\ perfCalls[q].pc = "done"
    /\ perfCalls' = [perfCalls EXCEPT ![q].pc = "init"]
    /\ UNCHANGED <<store, model, fitDone, isTraining, trainCalls, predictCalls>>

(* --------------------------- specification ------------------------------ *)
Train == \E t \in TrainCalls :
            TrainCall(t) \/ TrainPrepared(t) \/ TrainFitDone(t) \/ TrainFitFailed(t)

\* predict() over the ranges starting in starts and ending in ends, with the
\* exogenous values drawn from exo.
PredictOver(starts, ends, exo) ==
    \E p \in DOMAIN predictCalls, x \in exo :
        \/ \E s \in starts, e \in ends : PredictCall(p, s, e, x)
        \/ PredictResume(p, x)

\* The training/prediction interleavings are explored with a steady source.
Predict == PredictOver(StartInstants, Instants, SteadyExo)

Performance == \E q \in PerfCalls : PerfCall(q) \/ PerfRespond(q)

\* predict() and the performance report only read the shared state, so they
\* cannot influence each other; each is composed with training separately.
Next == Train \/ Predict

Spec == Init /\ [][Next]_vars

NextReport == Train \/ Performance

\* The state the first trainModel() invocation leaves when it succeeds on a
\* store of just enough records and nothing else has been requested.
InitTrained ==
    /\ store = Pad(MinTrainingData)
    /\ model = 1
    /\ fitDone = {1}
    /\ isTraining = FALSE
    /\ trainCalls = [ t \in TrainCalls |->
            IF t = 1 THEN [ pc |-> "done", result |-> "success", dataPoints |-> MinTrainingData ]
            ELSE [ pc |-> "init", result |-> "none", dataPoints |-> 0 ] ]
    /\ predictCalls = [ p \in PredictCalls |->
            [ pc |-> "init", result |-> "none", stationId |-> "", start |-> 0, end |-> 0, m |-> 0,
              pending |-> NoPoint, predictions |-> <<>>, previous |-> NoResponse ] ]
    /\ perfCalls = [ q \in PerfCalls |->
            [ pc |-> "init", averageAccuracy |-> 0, totalPredictions |-> 0, modelStatus |-> "none" ] ]

Repeat == \E p \in DOMAIN predictCalls : PredictAgain(p)

\* The range ends of the repeated invocations: ranges of no, one and two points.
RepeatEnds == {1, Hour + 1}

\* Repeated predict() invocations on a trained model with no training run in
\* progress, with a source that may return different values from one draw to
\* the next.
NextRepeat == PredictOver(StartInstants, RepeatEnds, ExoValues) \/ Repeat

SpecRepeat == InitTrained /\ [][NextRepeat]_vars

SpecReport == InitReport /\ [][NextReport]_vars

\* The requests to /api/predict, with a steady source.
Route ==
    \E p \in DOMAIN predictCalls, x \in SteadyExo :
        \/ \E id \in StationIds, s \in RouteStarts, e \in RouteEnds : RouteCall(p, id, s, e)
        \/ RouteStation(p, x)
        \/ PredictResume(p, x)

NextRoute == Train \/ Route

\* Training, predict() over a range of one point, and repeated performance
\* reports, in every interleaving.
Reports == \E q \in DOMAIN perfCalls : PerfAgain(q)

NextLifetime == Train \/ PredictOver({0}, {Hour}, SteadyExo) \/ Performance \/ Reports

SpecLifetime == Init /\ [][NextLifetime]_vars

SpecRoute == Init /\ [][NextRoute]_vars

(* ------------------------------- claims --------------------------------- *)
\* The invocations of trainModel() that have passed the guard and have not
\* yet returned or thrown.
InSection == { t \in TrainCalls : trainCalls[t].pc \in {"find", "fit"} }

\* Invocation c takes the step that leaves position "init": it is called.
Called(calls, c) == calls[c].pc = "init" /\ calls'[c].pc # "init"

\* The records that can supervise training: actualDemand present.
UsableCount(records) == Cardinality({ i \in 1..Len(records) : records[i].actualDemand # Absent })

\* Some training run has completed successfully.
SomeFitCompleted == \E t \in TrainCalls : trainCalls[t].result = "success"

\* C1: under every interleaving of trainModel() invocations at most one of
\* them is between the guard and the end of its fit, and an invocation that
\* arrives while another one is there returns already_training.
C1_AtMostOneTraining ==
    /\ [](Cardinality(InSection) <= 1)
    /\ [][\A t \in TrainCalls :
            (Called(trainCalls, t) /\ InSection # {}) =>
                /\ trainCalls'[t].pc = "done"
                /\ trainCalls'[t].result = "already_training"]_vars

\* C1 witness: one invocation is fitting and another has been answered
\* already_training.
C1_Witness ==
    \E t, u \in TrainCalls :
        trainCalls[t].pc = "fit" /\ trainCalls[u].result = "already_training"

\* C2: with fewer than 50 usable records (actualDemand present), whatever the
\* total number of stored records, an invocation that has passed the guard
\* fails with the insufficient-data error and leaves the owned model (hence
\* the trained status) as it was.
C2_FewUsableRecordsRejected ==
    [][\A t \in TrainCalls :
        ( /\ trainCalls[t].pc = "find"
          /\ trainCalls'[t].pc # "find"
          /\ UsableCount(store) < MinTrainingData ) =>
            /\ trainCalls'[t].result = "not_enough_data"
            /\ model' = model]_vars

\* C3: when a fit fails although an earlier training run had succeeded, the
\* owned model after the failure is not the model object of the failed run
\* (it is still the previously trained one).
C3_FailedFitKeepsPriorModel ==
    \A t \in TrainCalls :
        (trainCalls[t].result = "fit_error" /\ SomeFitCompleted) => model # t

\* C4: a predict() called in a state in which no training run has completed
\* successfully fails with the model-not-trained error.
C4_PredictBeforeSuccessFails ==
    [][\A p \in PredictCalls :
        (Called(predictCalls, p) /\ ~SomeFitCompleted) =>
            /\ predictCalls'[p].result = "model_not_trained"
            /\ predictCalls'[p].predictions = <<>>
            /\ predictCalls'[p].pending = NoPoint]_vars

\* C5: every forecast point predict() has computed was evaluated on a model
\* object whose fit had completed.
C5_PointsFromFittedModel ==
    \A p \in PredictCalls :
        /\ \A i \in 1..Len(predictCalls[p].predictions) : predictCalls[p].predictions[i].fitted
        /\ predictCalls[p].pc = "await" => predictCalls[p].pending.fitted

\* C6: every invocation of trainModel() that has passed the guard clears the
\* training flag in the step in which it returns or throws, on each of its
\* exits; so an invocation that arrives while no run is in progress is never
\* answered already_training.
C6_GuardReleasedOnEveryExit ==
    /\ [][\A t \in TrainCalls :
            (t \in InSection /\ trainCalls'[t].pc = "done") => ~isTraining']_vars
    /\ [][\A t \in TrainCalls :
            (Called(trainCalls, t) /\ InSection = {}) =>
                trainCalls'[t].result # "already_training"]_vars

\* C6 witness: an invocation whose fit failed has thrown, and an invocation
\* that arrived after it has passed the guard.
C6_Witness ==
    \E t, u \in TrainCalls :
        /\ t < u
        /\ trainCalls[t].result = "fit_error"
        /\ u \in InSection

\* C7: with at least 50 records whose actualDemand is present (other records
\* may lack it), an invocation that passed the guard and whose fit raised no
\* exception has returned success, counting every record read, and the owned
\* model is set.
C7_EnoughDataTrains ==
    \A t \in TrainCalls :
        ( /\ UsableCount(store) >= MinTrainingData
          /\ trainCalls[t].pc = "done"
          /\ trainCalls[t].result \notin {"already_training", "fit_error"} ) =>
            /\ trainCalls[t].result = "success"
            /\ t \in fitDone
            /\ model # NoModel

\* C7 witness: a successful run on a store that mixes at least 50 usable
\* records with a record whose actualDemand is absent.
C7_Witness ==
    /\ UsableCount(store) >= MinTrainingData
    /\ UsableCount(store) < Len(store)
    /\ \E t \in TrainCalls : trainCalls[t].result = "success"

\* C8: the performance summary reports modelStatus trained only when some
\* training run has completed successfully.
C8_TrainedOnlyAfterSuccess ==
    \A q \in PerfCalls :
        (perfCalls[q].pc = "done" /\ perfCalls[q].modelStatus = "trained") => SomeFitCompleted

\* The instants start, start + 1h, ... that lie strictly before end.
HourlyInstants(start, end) == { x \in start..(end - 1) : (x - start) % Hour = 0 }

\* C9: a predict() that found a model yields exactly one point for each of
\* the instants start, start + 1h, ... strictly before end, in ascending
\* order, each carrying the hour and weekday of its instant; it yields the
\* empty sequence, and no error, when start is not before end.
C9_HourlyPoints ==
    \A p \in PredictCalls :
        LET c == predictCalls[p]
        IN  /\ (c.pc = "done" /\ c.result # "model_not_trained") =>
                /\ c.result = "ok"
                /\ Len(c.predictions) = Cardinality(HourlyInstants(c.start, c.end))
            /\ \A k \in 1..Len(c.predictions) :
                /\ c.predictions[k].timestamp = c.start + (k - 1) * Hour
                /\ c.predictions[k].timestamp < c.end
                /\ c.predictions[k].hour = HourOf(c.predictions[k].timestamp)
                /\ c.predictions[k].dayOfWeek = DayOfWeekOf(c.predictions[k].timestamp)

\* C9 witness: a completed predict() over a range of more than one hour whose
\* length is not a whole number of hours.
C9_Witness ==
    \E p \in PredictCalls :
        /\ predictCalls[p].result = "ok"
        /\ Len(predictCalls[p].predictions) >= 2
        /\ (predictCalls[p].end - predictCalls[p].start) % Hour # 0

\* The accuracy values that are present, in record order.
RECURSIVE PresentAccuracies(_)
PresentAccuracies(records) ==
    IF records = <<>> THEN <<>>
    ELSE LET rest == PresentAccuracies(Tail(records))
         IN  IF Head(records).accuracy # Absent
             THEN <<Head(records).accuracy>> \o rest ELSE rest

\* The mean of the present accuracy values, in hundredths rounded as the
\* report rounds; 0 when none is present.
MeanOfPresent(records) ==
    LET present == PresentAccuracies(records)
    IN  IF present = <<>> THEN 0 ELSE RoundDiv(100 * SumSeq(present), Len(present))

\* C10: averageAccuracy is the mean of the accuracy values of exactly the
\* records whose accuracy is present, those of 0 or below included, and 0 when
\* no record has one.
C10_AverageOverPresent ==
    \A q \in PerfCalls :
        perfCalls[q].pc = "done" => perfCalls[q].averageAccuracy = MeanOfPresent(store)

\* C11: the record total of the performance summary is the number of all
\* stored records, with or without accuracy; 0 for the empty record set.
C11_TotalCountsAllRecords ==
    \A q \in PerfCalls :
        perfCalls[q].pc = "done" =>
            perfCalls[q].totalPredictions = Cardinality(DOMAIN store)

\* C11 witness: a summary over a store holding a record without accuracy.
C11_Witness ==
    \E q \in PerfCalls :
        /\ perfCalls[q].pc = "done"
        /\ \E i \in DOMAIN store : store[i].accuracy = Absent

\* C14: an invocation of trainModel() that finds the flag set returns
\* already_training at once, having read no records, and leaves the flag, the
\* owned model, the fitted models and the store as they were.
C14_RejectedCallChangesNothing ==
    [][\A t \in TrainCalls :
        (Called(trainCalls, t) /\ isTraining) =>
            /\ trainCalls'[t] = [ pc |-> "done", result |-> "already_training", dataPoints |-> 0 ]
            /\ isTraining'
            /\ UNCHANGED <<model, fitDone, store>>]_vars

\* C14 witness: an invocation has been answered already_training while the
\* run that holds the flag is still reading the store.
C14_Witness ==
    /\ isTraining
    /\ \E t, u \in TrainCalls :
        trainCalls[t].pc = "find" /\ trainCalls[u].result = "already_training"

\* The points a predict() invocation has computed so far, the one whose value
\* it is awaiting included.
ComputedPoints(c) == c.predictions \o (IF c.pc = "await" THEN <<c.pending>> ELSE <<>>)

\* C15: all the points of one predict() invocation are computed from one
\* model snapshot, that of the first point, which is computed in the step of
\* the invocation: the same model object in the same state of fit.
C15_OneSnapshotPerCall ==
    \A p \in PredictCalls :
        LET pts == ComputedPoints(predictCalls[p])
        IN  \A i \in DOMAIN pts :
                /\ pts[i].model = pts[1].model
                /\ pts[i].fitted = pts[1].fitted

\* The targets of the records whose actualDemand is present, in record order.
RECURSIVE UsableTargets(_)
UsableTargets(records) ==
    IF records = <<>> THEN <<>>
    ELSE LET rest == UsableTargets(Tail(records))
         IN  IF Head(records).actualDemand # Absent
             THEN << <<Head(records).actualDemand>> >> \o rest ELSE rest

\* C16: for an invocation that has passed the size check, the extracted
\* features and targets have equal length, the targets are those of the records
\* whose actualDemand is present, in record order, and dataPoints is their
\* number.
C16_OnlyUsableRecordsExtracted ==
    \A t \in TrainCalls :
        (trainCalls[t].pc = "fit" \/ trainCalls[t].result \in {"success", "fit_error"}) =>
            LET data == PrepareTrainingData(store)
            IN  /\ Len(data.features) = Len(data.targets)
                /\ data.targets = UsableTargets(store)
                /\ trainCalls[t].dataPoints = UsableCount(store)

\* C17: a step of a predict() invocation, whether it returns points, fails
\* or continues, changes neither the owned model, nor which models are
\* fitted, nor the training flag, nor the store, nor any trainModel()
\* invocation.
C17_PredictOnlyReads ==
    [][(predictCalls' # predictCalls) =>
            UNCHANGED <<model, fitDone, isTraining, store, trainCalls>>]_vars

\* C17 witness: a predict() invocation has returned points while a training
\* run holds the flag.
C17_Witness ==
    /\ isTraining
    /\ \E p \in PredictCalls :
        predictCalls[p].result = "ok" /\ Len(predictCalls[p].predictions) >= 1

\* What the exogenous source returned for a point: temperature, humidity and
\* prior demand.
ExoOf(pt) == << pt.input[1], pt.input[2], pt.input[5] >>

\* The source returned the same values for the same hour in both sequences.
SameSource(a, b) ==
    \A i \in DOMAIN a, j \in DOMAIN b :
        a[i].timestamp = b[j].timestamp => ExoOf(a[i]) = ExoOf(b[j])

\* Every point of both sequences was computed by one fitted model.
FixedModel(a, b) ==
    \A i \in DOMAIN (a \o b) :
        (a \o b)[i].fitted /\ (a \o b)[i].model = (a \o b)[1].model

\* C13: when predict() is invoked again with the arguments of an earlier
\* invocation, the model being one fitted model throughout and the source
\* returning the same values for the same hour, it returns the sequence the
\* earlier invocation returned.
C13_RepeatedCallSameSequence ==
    \A p \in DOMAIN predictCalls :
        LET c == predictCalls[p]
        IN  ( /\ c.pc = "done" /\ c.result = "ok"
              /\ c.previous # NoResponse
              /\ c.previous.start = c.start /\ c.previous.end = c.end
              /\ FixedModel(c.previous.predictions, c.predictions)
              /\ SameSource(c.previous.predictions, c.predictions) ) =>
                c.predictions = c.previous.predictions

\* C13 witness: a second invocation with the same arguments has returned a
\* sequence of two points for which the source repeated its values.
C13_Witness ==
    \E p \in DOMAIN predictCalls :
        LET c == predictCalls[p]
        IN  /\ c.pc = "done" /\ c.result = "ok"
            /\ c.previous # NoResponse
            /\ c.previous.start = c.start /\ c.previous.end = c.end
            /\ Len(c.previous.predictions) = 2
            /\ FixedModel(c.previous.predictions, c.predictions)
            /\ SameSource(c.previous.predictions, c.predictions)

\* A bound of the range is missing or is not a date.
MalformedRange(startDate, endDate) ==
    {startDate, endDate} \cap {MissingDate, InvalidDate} # {}

\* C12: while the owned model is a fitted one, a request to /api/predict for
\* a stored station whose range has a missing or unparseable bound, and that
\* was not refused for want of a model, has been answered with the
\* invalid-request error and never with a sequence of points.
C12_MalformedRangeRejected ==
    \A p \in DOMAIN predictCalls :
        LET c == predictCalls[p]
        IN  ( /\ c.pc = "done"
              /\ model \in fitDone
              /\ c.stationId \in Stations
              /\ MalformedRange(c.start, c.end)
              /\ c.result # "model_not_trained" ) =>
                c.result = "bad_request"

\* The invocations of trainModel() that have passed the size check (line 59).
PassedSizeCheck ==
    { t \in TrainCalls : trainCalls[t].pc = "fit" \/ trainCalls[t].result \in {"success", "fit_error"} }

\* C18: the owned model is absent exactly as long as no trainModel()
\* invocation has passed the size check; once present it is never absent
\* again; from then on no predict() invocation fails with the
\* model-not-trained error, and a performance report that follows a report
\* of "trained" reports "trained".
C18_ModelNeverAbsentAgain ==
    /\ []((model = NoModel) <=> (PassedSizeCheck = {}))
    /\ [][model # NoModel => model' # NoModel]_vars
    /\ [][\A p \in DOMAIN predictCalls :
            (PassedSizeCheck # {} /\ Called(predictCalls, p)) =>
                predictCalls'[p].result # "model_not_trained"]_vars
    /\ [][\A q \in DOMAIN perfCalls :
            (perfCalls[q].pc = "find" /\ perfCalls'[q].pc = "done"
                /\ perfCalls[q].modelStatus = "trained") =>
                perfCalls'[q].modelStatus = "trained"]_vars

\* C18 witness: a fit has been rejected, no run is in progress, predict() has
\* returned a point and a performance report says "trained".
C18_Witness ==
    /\ ~isTraining
    /\ \E t \in TrainCalls : trainCalls[t].result = "fit_error"
    /\ \E p \in DOMAIN predictCalls :
            predictCalls[p].result = "ok" /\ Len(predictCalls[p].predictions) = 1
    /\ \E q \in DOMAIN perfCalls :
            perfCalls[q].pc = "done" /\ perfCalls[q].modelStatus = "trained"

====
